---- MODULE Spec2Model ----
(***************************************************************************)
(* Bhajan Mixer: the rotation-and-pipeline engine.                         *)
(*                                                                         *)
(* The model follows main() of the project context (filter empty sources,  *)
(* rotate and combine) and the rotation / metadata code of the             *)
(* implementation specification: one mp3 per track number, one mp4 per     *)
(* track number that collected at least one video, ID3 title and artist    *)
(* composed from the files that went into the mp3.                         *)
(*                                                                         *)
(* Strings are sequences of one-character strings, so that len(), join     *)
(* and the {:02d} format are computed and not assumed.                     *)
(*                                                                         *)
(* Around the rotation, main() resolves the output folder of the album     *)
(* (auto-increment), and removes the temp directory as its last statement; *)
(* the environment may make the folder creation, the encoding of a track   *)
(* or the deletion of a downloaded file fail. A dry run prints estimates   *)
(* and does nothing else.                                                  *)
(***************************************************************************)
EXTENDS Integers, Sequences, FiniteSets

\* ------------------------------------------------------------------ bounds
\* Audio-only sources, as in the documented rotation examples.
MaxSources == 3
MaxLen == 5
\* Sources that are audio-only or audio+video as a whole.
MaxPipeSources == 2
MaxPipeLen == 3
\* Sources whose files mix audio-only, video-only and audio+video files.
MaxMixedSources == 2
MaxMixedLen == 2
\* Sources with titles and artists of varying length.
MaxMetaSources == 2
MaxMetaLen == 2
\* Whole runs of main(): sources, files per source, runs of the same command
\* line one after the other, and the highest suffix already in the output root.
MaxRunSources == 2
MaxRunLen == 2
MaxRuns == 3
MaxDir == 1
\* A single source long enough for three-digit track numbers.
MaxTracks == 101

\* ------------------------------------------------------- program constants
\* if len(combined_title) > 80
TitleLimit == 80
\* {track_num:02d}
PadWidth == 2

VARIABLES
    args,            \* what each command-line source resolves to: a list of media files
    mp4out_enabled,  \* --mp4out
    pc,              \* position in main()
    sources,         \* main()'s sources list: records [location, files]
    removed,         \* sources removed from rotation, as reported to the user
    max_length,      \* rotate_and_combine: longest source
    track_num,       \* rotate_and_combine: loop variable
    mp3_files,       \* tracks written by create_mp3, in order
    mp4_files,       \* tracks written by create_mp4, in order
    exit_code,       \* process exit status, -1 while running
    dry_run,         \* --dry-run
    faults,          \* what the environment makes fail during this run
    output_dirs,     \* output/: suffixes N of the existing {album-name}.N folders (0: no suffix)
    output_dir,      \* main()'s output_dir: the suffix it was given, -1 before
    temp_files,      \* intermediate files on disk in the temp directory
    failed_tracks,   \* errors logged by the track loop: records [track_num, ext, partial]
    cleanup_ran,     \* cleanup_temp_files() was called
    dry_report,      \* what the dry run printed, <<>> if nothing
    run,             \* which run of the command line this is
    history,         \* what the earlier runs ended with
    arrived,         \* retrievals that have completed, in completion order
    wrapper,         \* bhajan-mixer.sh / .bat: its position and variables
    cache,           \* server.js: cache/<folderId>.json, the list each file holds
    requests,        \* server.js: the requests received, each with its position
    drive_fetches,   \* server.js: the folder of every fetch() of a Drive page
    drive            \* Google Drive: the page it serves for each folder

vars == <<args, mp4out_enabled, pc, sources, removed, max_length, track_num,
          mp3_files, mp4_files, exit_code, dry_run, faults, output_dirs,
          output_dir, temp_files, failed_tracks, cleanup_ran, dry_report,
          run, history, arrived, wrapper, cache, requests, drive_fetches,
          drive>>

\* The player server.
server == <<cache, requests, drive_fetches, drive>>
\* What is no part of the mixer process: the wrapper script and the server.
elsewhere == <<wrapper, server>>
\* The mixer process.
mixer == <<args, mp4out_enabled, pc, sources, removed, max_length, track_num,
           mp3_files, mp4_files, exit_code, dry_run, faults, output_dirs,
           output_dir, temp_files, failed_tracks, cleanup_ran, dry_report,
           run, history, arrived>>

\* The command line and the environment of a run.
invocation == <<args, mp4out_enabled, dry_run, faults>>
\* The file system outside the output folder of the run.
disk == <<output_dirs, temp_files>>
\* What rotate_and_combine() works on and writes.
rotation == <<max_length, track_num, mp3_files, mp4_files, failed_tracks>>

\* ----------------------------------------------------------------- strings
\* " \u2022 ": a space, the bullet (one character, written "*" here), a space
Separator == <<" ", "*", " ">>

DigitChar(d) == <<"0", "1", "2", "3", "4", "5", "6", "7", "8", "9">>[d + 1]

SourceLetter(s) == <<"A", "B", "C", "D", "E", "F", "G", "H">>[s]

RECURSIVE Decimal(_)
Decimal(n) == IF n < 10 THEN <<DigitChar(n)>>
              ELSE Decimal(n \div 10) \o <<DigitChar(n % 10)>>

RECURSIVE ZeroPad(_, _)
ZeroPad(str, width) == IF Len(str) >= width THEN str
                       ELSE ZeroPad(<<"0">> \o str, width)

\* Slip: the track number is not padded.
TrackNumber_unpadded(n) == Decimal(n)

\* f"{track_num:02d}"
TrackNumber02d(n) == ZeroPad(Decimal(n), PadWidth)

RECURSIVE Repeat(_, _)
Repeat(ch, n) == IF n = 0 THEN <<>> ELSE <<ch>> \o Repeat(ch, n - 1)

\* " * ".join(strs)
RECURSIVE Join(_)
Join(strs) == IF strs = <<>> THEN <<>>
              ELSE IF Len(strs) = 1 THEN strs[1]
              ELSE strs[1] \o Separator \o Join(Tail(strs))

\* ------------------------------------------------------------- media files
Caps == {"A", "V", "AV"}

\* Title metadata of file i of source s, n characters long; n = 0: no title.
TitleOf(s, i, n) ==
    IF n = 0 THEN <<>>
    ELSE IF n = 1 THEN <<SourceLetter(s)>>
    ELSE <<SourceLetter(s), DigitChar(i)>> \o Repeat("x", n - 2)

ArtistOf(s, present) == IF present THEN <<"R", SourceLetter(s)>> ELSE <<>>

\* A media file of a Source: capability flags, the paths handed to the
\* pipelines (the file's identity stands for both paths) and its metadata.
MediaFile(s, i, caps, tlen, art) ==
    [ id        |-> <<s, i>>,
      has_audio |-> caps \in {"A", "AV"},
      has_video |-> caps \in {"V", "AV"},
      title     |-> TitleOf(s, i, tlen),
      artist    |-> ArtistOf(s, art) ]

\* Title lengths that put the joined title of two files on both sides of
\* the limit (38+3+39 = 80, 39+3+39 = 81), and one that exceeds it alone.
TitleLens == {0, 38, 39, 81}

\* ---------------------------------------------------------- initial states
\* Audio-only sources, titled A1, A2, ... as in the documented examples.
InitRotation ==
    \E n \in 1..MaxSources :
      \E len \in [1..n -> 0..MaxLen] :
        args = [s \in 1..n |->
                  [i \in 1..len[s] |-> MediaFile(s, i, "A", 2, FALSE)]]

\* Every source holds files of one kind: all audio-only or all audio+video.
InitPipelines ==
    \E n \in 1..MaxPipeSources :
      \E len \in [1..n -> 0..MaxPipeLen], kind \in [1..n -> {"A", "AV"}] :
        args = [s \in 1..n |->
                  [i \in 1..len[s] |-> MediaFile(s, i, kind[s], 2, FALSE)]]

\* Every file has its own capabilities.
MixedCaps == UNION {[1..l -> Caps] : l \in 0..MaxMixedLen}

InitMixed ==
    \E n \in 1..MaxMixedSources :
      \E caps \in [1..n -> MixedCaps] :
        args = [s \in 1..n |->
                  [i \in DOMAIN caps[s] |-> MediaFile(s, i, caps[s][i], 2, FALSE)]]

\* Sources of a common length whose files have titles of a chosen length, an
\* artist or none, and audio or no audio.
InitMeta ==
    \E n \in 1..MaxMetaSources, len \in 1..MaxMetaLen :
      \E tlen \in [1..n -> TitleLens], art \in [1..n -> BOOLEAN],
         caps \in [1..n -> {"A", "V"}] :
        args = [s \in 1..n |->
                  [i \in 1..len |-> MediaFile(s, i, caps[s], tlen[s], art[s])]]

\* Nothing fails: the output folder can be created, every track is encoded
\* and every intermediate file can be deleted.
NoFaults == [dir |-> FALSE, mp3 |-> {}, mp4 |-> {}, rm |-> {}]

\* The Google Drive folders that requests to the player server name.
FolderIds == {"F"}

\* cache/<folderId>.json and cache/debug-<folderId>.html do not exist.
NoFile == [exists |-> FALSE, files |-> <<>>, debug |-> <<>>]

\* The wrapper script has not been invoked and the player server is not
\* running; no retrieval has completed.
Elsewhere ==
    /\ arrived = <<>>
    /\ wrapper = [pc |-> "idle"]
    /\ cache = [f \in FolderIds |-> NoFile]
    /\ requests = <<>>
    /\ drive_fetches = <<>>
    /\ drive = [f \in FolderIds |-> <<>>]

\* The state of a process that has just started.
ProcessStart ==
    /\ pc = "scan"
    /\ sources = <<>>
    /\ removed = <<>>
    /\ max_length = 0
    /\ track_num = 0
    /\ mp3_files = <<>>
    /\ mp4_files = <<>>
    /\ exit_code = -1
    /\ output_dir = -1
    /\ failed_tracks = <<>>
    /\ cleanup_ran = FALSE
    /\ dry_report = <<>>

\* One run in an environment where nothing fails, into an empty output root.
Init ==
    /\ InitRotation \/ InitPipelines \/ InitMixed \/ InitMeta
    /\ mp4out_enabled \in BOOLEAN
    /\ dry_run \in BOOLEAN
    /\ faults = NoFaults
    /\ output_dirs = {}
    /\ temp_files = {}
    /\ run = 1
    /\ history = <<>>
    /\ ProcessStart
    /\ Elsewhere

\* Few, short sources, each audio-only or audio+video as a whole.
InitSmall ==
    \E n \in 1..MaxRunSources :
      \E len \in [1..n -> 0..MaxRunLen], kind \in [1..n -> {"A", "AV"}] :
        args = [s \in 1..n |->
                  [i \in 1..len[s] |-> MediaFile(s, i, kind[s], 2, FALSE)]]

\* The downloaded (or copied) file f, as a file of the temp directory.
Download(f) == <<"download", f.id>>

Downloads(a) == UNION {{Download(a[s][i]) : i \in DOMAIN a[s]} : s \in DOMAIN a}

\* One thing fails in the run: the creation of the output folder, the
\* encoding of some mp3 tracks, of one mp4 track, or the deletion of one
\* downloaded file.
FaultScenarios(a) ==
    {NoFaults}
    \cup {[NoFaults EXCEPT !.dir = TRUE]}
    \cup {[NoFaults EXCEPT !.mp3 = S] : S \in SUBSET (1..MaxRunLen) \ {{}}}
    \cup {[NoFaults EXCEPT !.mp4 = {t}] : t \in 1..MaxRunLen}
    \cup {[NoFaults EXCEPT !.rm = {d}] : d \in Downloads(a)}

\* One run in an environment where something may fail.
InitFaults ==
    /\ InitSmall
    /\ mp4out_enabled \in BOOLEAN
    /\ dry_run \in BOOLEAN
    /\ faults \in IF dry_run THEN {NoFaults} ELSE FaultScenarios(args)
    /\ output_dirs = {}
    /\ temp_files = {}
    /\ run = 1
    /\ history = <<>>
    /\ ProcessStart
    /\ Elsewhere

\* The same command line run several times; the output root may already
\* hold folders of the album name.
InitRuns ==
    /\ InitSmall
    /\ mp4out_enabled \in BOOLEAN
    /\ dry_run \in BOOLEAN
    /\ faults = NoFaults
    /\ output_dirs \in SUBSET (0..MaxDir)
    /\ temp_files = {}
    /\ run = 1
    /\ history = <<>>
    /\ ProcessStart
    /\ Elsewhere

\* One audio-only source, short or long enough for three-digit numbers.
InitNaming ==
    /\ \E len \in {0, 9, 10} \cup (99..MaxTracks) :
         args = <<[i \in 1..len |-> MediaFile(1, i, "A", 1, FALSE)]>>
    /\ mp4out_enabled = FALSE
    /\ dry_run \in BOOLEAN
    /\ faults = NoFaults
    /\ output_dirs = {}
    /\ temp_files = {}
    /\ run = 1
    /\ history = <<>>
    /\ ProcessStart
    /\ Elsewhere

\* --------------------------------------------------------------- rotation
MaxOf(S) == CHOOSE m \in S : \A x \in S : x <= m

\* Slip: the length of the first source instead of the longest.
MaxLength_first(srcs) == Len(srcs[1].files)

\* max_length = max(len(source.files) for source in sources)
MaxLength(srcs) == MaxOf({Len(srcs[k].files) : k \in DOMAIN srcs})

\* Slip: the 1-based track number used as the 0-based index.
FileIdx_offbyone(t, source) == t % Len(source.files)

\* file_idx = (track_num - 1) % len(source.files)
FileIdx(t, source) == (t - 1) % Len(source.files)

\* Slip: the rotation resumes where the previous run stopped.
SelectedFile_resumed(t, source) ==
    source.files[((t + run - 2) % Len(source.files)) + 1]

\* media_file = source.files[file_idx]   (Python lists are 0-based)
SelectedFile(t, source) == source.files[FileIdx(t, source) + 1]

\* Slip: a source that has run out of files is left out of the track.
SelectedFiles_exhausted(srcs, t) ==
    LET live == SelectSeq(srcs, LAMBDA source : Len(source.files) >= t)
    IN  [k \in DOMAIN live |-> SelectedFile(t, live[k])]

\* The media_file of every source for one track, in source order.
SelectedFiles(srcs, t) == [k \in DOMAIN srcs |-> SelectedFile(t, srcs[k])]

HasAudio(f) == f.has_audio
HasVideo(f) == f.has_video

\* Slip: the files without audio are taken out of each source before the
\* circular index is computed.
CombinedAudio_filtered(srcs, t) ==
    LET audible == SelectSeq([k \in DOMAIN srcs |->
                                [files |-> SelectSeq(srcs[k].files, HasAudio)]],
                             LAMBDA src : src.files # <<>>)
    IN  SelectedFiles(audible, t)

\* if media_file.has_audio: combined_audio.append(media_file.audio_path)
CombinedAudio(srcs, t) == SelectSeq(SelectedFiles(srcs, t), HasAudio)

\* Slip: every selected file goes to the video pipeline.
CombinedVideo_any(srcs, t, enabled) ==
    IF enabled THEN SelectedFiles(srcs, t) ELSE <<>>

\* if media_file.has_video and mp4out_enabled: combined_video.append(...)
CombinedVideo(srcs, t, enabled) ==
    IF enabled THEN SelectSeq(SelectedFiles(srcs, t), HasVideo) ELSE <<>>

\* --------------------------------------------------------------- metadata
NonEmpty(str) == str # <<>>

\* title = extract_title(source_file)
ExtractTitle(f) == f.title
ExtractArtist(f) == f.artist

\* titles = [title of each source file if title]
Titles(source_files) ==
    SelectSeq([k \in DOMAIN source_files |-> ExtractTitle(source_files[k])],
              NonEmpty)

Artists(source_files) ==
    SelectSeq([k \in DOMAIN source_files |-> ExtractArtist(source_files[k])],
              NonEmpty)

\* Slip: the number of sources of the rotation instead of the files combined.
FallbackTitle_allsources(t, source_files) ==
    <<"T", "r", "a", "c", "k", " ">> \o TrackNumber02d(t)
      \o <<" ", "(", "f", "r", "o", "m", " ">> \o Decimal(Len(sources))
      \o <<" ", "s", "o", "u", "r", "c", "e", "s", ")">>

\* f"Track {track_num:02d} (from {len(source_files)} sources)"
FallbackTitle(t, source_files) ==
    <<"T", "r", "a", "c", "k", " ">> \o TrackNumber02d(t)
      \o <<" ", "(", "f", "r", "o", "m", " ">> \o Decimal(Len(source_files))
      \o <<" ", "s", "o", "u", "r", "c", "e", "s", ")">>

\* Slip: a title that is too long is cut to the limit.
CombinedTitle_truncated(t, source_files) ==
    LET combined_title == Join(Titles(source_files))
    IN  IF Len(combined_title) > TitleLimit
        THEN SubSeq(combined_title, 1, TitleLimit)
        ELSE combined_title

\* combined_title = " * ".join(titles); if len(combined_title) > 80: fallback
CombinedTitle(t, source_files) ==
    LET combined_title == Join(Titles(source_files))
    IN  IF Len(combined_title) > TitleLimit
        THEN FallbackTitle(t, source_files)
        ELSE combined_title

VariousArtists ==
    <<"V", "a", "r", "i", "o", "u", "s", " ", "A", "r", "t", "i", "s", "t", "s">>

\* Slip: no default when no file has an artist.
CombinedArtist_nodefault(source_files) == Join(Artists(source_files))

\* combined_artists or "Various Artists"
CombinedArtist(source_files) ==
    LET combined_artists == Join(Artists(source_files))
    IN  IF combined_artists # <<>> THEN combined_artists ELSE VariousArtists

\* create_mp3(combined_audio, f"track-{track_num:02d}.mp3") with its ID3 tags
create_mp3(combined_audio, t, total_tracks) ==
    [ track_num |-> t,
      name      |-> TrackNumber02d(t),
      files     |-> [k \in DOMAIN combined_audio |-> combined_audio[k].id],
      title     |-> CombinedTitle(t, combined_audio),
      artist    |-> CombinedArtist(combined_audio),
      total     |-> total_tracks ]

\* Slip: the video pipeline runs whether or not --mp4out was given.
create_mp4_always(srcs, t, enabled) ==
    LET combined_video == CombinedVideo(srcs, t, TRUE)
    IN  IF combined_video # <<>>
        THEN << [ track_num |-> t,
                  name      |-> TrackNumber02d(t),
                  files     |-> [k \in DOMAIN combined_video |->
                                    combined_video[k].id] ] >>
        ELSE <<>>

\* if mp4out_enabled and combined_video: create_mp4(combined_video, ...)
create_mp4(srcs, t, enabled) ==
    LET combined_video == CombinedVideo(srcs, t, enabled)
    IN  IF enabled /\ combined_video # <<>>
        THEN << [ track_num |-> t,
                  name      |-> TrackNumber02d(t),
                  files     |-> [k \in DOMAIN combined_video |->
                                    combined_video[k].id] ] >>
        ELSE <<>>

\* ------------------------------------------------------ output management
\* Slip: the suffix is the number of folders that exist.
create_output_dir_count(dirs) == Cardinality(dirs)

\* create_output_dir(): the album folder, or the first of {album-name}.1,
\* {album-name}.2, ... that does not exist yet.
create_output_dir(dirs) ==
    CHOOSE n \in 0..Cardinality(dirs) :
        n \notin dirs /\ \A m \in 0..(n - 1) : m \in dirs

\* shutil.rmtree('downloads/'): every file is deleted, or the first deletion
\* that fails raises and whatever the walk had not reached stays on disk. The
\* order of the walk is the order of the directory listing.
rmtree(files, undeletable) ==
    IF files \cap undeletable = {}
    THEN {[left |-> {}, raised |-> FALSE]}
    ELSE {[left |-> files \ R, raised |-> TRUE] :
             R \in SUBSET (files \ undeletable)}

\* ---------------------------------------------------------------- dry run
\* Slip: the flag is parsed and never looked at.
IsDryRun_ignored(flag) == FALSE

IsDryRun(flag) == flag

\* Dry Run Output: the estimate of every source and of the outputs, which
\* depends on the longest source.
DryRunReport(a) ==
    LET estimate == [s \in DOMAIN a |-> Len(a[s])]
    IN  [ sources    |-> estimate,
          mp3_tracks |-> MaxOf({estimate[s] : s \in DOMAIN a}),
          mp4_tracks |-> MaxOf({estimate[s] : s \in DOMAIN a}) ]

\* ----------------------------------------------------------------- actions
\* --dry-run: show what would be created, don't download or process.
DryRun ==
    /\ pc = "scan"
    /\ IsDryRun(dry_run)
    /\ dry_report' = DryRunReport(args)
    /\ pc' = "dry_done"
    /\ exit_code' = 0
    /\ UNCHANGED <<invocation, arrived, elsewhere, disk, rotation, sources, removed, output_dir,
                   cleanup_ran, run, history>>

\* main(): sources = [Source(loc) ...]; source.download_or_scan()
DownloadOrScan ==
    /\ pc = "scan"
    /\ ~IsDryRun(dry_run)
    /\ sources' = [s \in DOMAIN args |-> [location |-> s, files |-> args[s]]]
    /\ temp_files' = temp_files \cup Downloads(args)
    /\ pc' = "filter"
    /\ UNCHANGED <<invocation, arrived, elsewhere, rotation, removed, exit_code, output_dirs,
                   output_dir, cleanup_ran, dry_report, run, history>>

\* Slip: a source needs more than one file to stay.
IsValid_morethanone(source) == Len(source.files) > 1

IsValid(source) == Len(source.files) > 0
IsEmpty(source) == ~IsValid(source)

\* main(): sources = [s for s in sources if len(s.files) > 0]; every source
\* left out is reported to the user as removed from rotation.
FilterEmptySources ==
    /\ pc = "filter"
    /\ sources' = SelectSeq(sources, IsValid)
    /\ removed' = SelectSeq(sources, IsEmpty)
    /\ pc' = "filtered"
    /\ UNCHANGED <<invocation, arrived, elsewhere, disk, rotation, exit_code, output_dir,
                   cleanup_ran, dry_report, run, history>>

\* All sources fail: display the error, exit with code 1.
AllSourcesFail ==
    /\ pc = "filtered"
    /\ sources = <<>>
    /\ pc' = "exit"
    /\ exit_code' = 1
    /\ UNCHANGED <<invocation, arrived, elsewhere, disk, rotation, sources, removed, output_dir,
                   cleanup_ran, dry_report, run, history>>

\* main(): output_dir = create_output_dir("/app/output", args.album). main()
\* has no handler around the call: an OSError ends the process with status 1.
CreateOutputDir ==
    /\ pc = "filtered"
    /\ sources # <<>>
    /\ IF faults.dir
       THEN /\ pc' = "exit"
            /\ exit_code' = 1
            /\ UNCHANGED <<output_dirs, output_dir>>
       ELSE /\ output_dir' = create_output_dir(output_dirs)
            /\ output_dirs' = output_dirs \cup {output_dir'}
            /\ pc' = "outdir"
            /\ UNCHANGED exit_code
    /\ UNCHANGED <<invocation, arrived, elsewhere, rotation, sources, removed, temp_files,
                   cleanup_ran, dry_report, run, history>>

\* Slip: the rotation does not wait for the output directory.
StartRotation_early ==
    /\ pc \in {"filtered", "outdir"}
    /\ sources # <<>>
    /\ max_length' = MaxLength(sources)
    /\ track_num' = 1
    /\ pc' = "rotate"
    /\ UNCHANGED <<invocation, arrived, elsewhere, disk, sources, removed, mp3_files, mp4_files,
                   failed_tracks, exit_code, output_dir, cleanup_ran,
                   dry_report, run, history>>

\* rotate_and_combine(): max_length, then the first track_num of the range
StartRotation ==
    /\ pc = "outdir"
    /\ max_length' = MaxLength(sources)
    /\ track_num' = 1
    /\ pc' = "rotate"
    /\ UNCHANGED <<invocation, arrived, elsewhere, disk, sources, removed, mp3_files, mp4_files,
                   failed_tracks, exit_code, output_dir, cleanup_ran,
                   dry_report, run, history>>

\* Slip: an encoding error ends the run.
AfterTrack_abort(ok) == IF ok THEN "rotate" ELSE "exit"

\* FFmpeg errors during concatenation: log the error, continue to next track.
AfterTrack(ok) == "rotate"

\* What an encoding error leaves: the error that is logged and, as the
\* encoder opens its output file before it encodes and nothing removes it
\* afterwards, possibly a partial track-NN.<ext> in the output directory.
Failed_track(t, ext, partial) ==
    [track_num |-> t, ext |-> ext, partial |-> partial]

\* One iteration of: for track_num in range(1, max_length + 1)
CreateTrack ==
    /\ pc = "rotate"
    /\ track_num <= max_length
    /\ LET combined_audio == CombinedAudio(sources, track_num)
           video_tracks   == create_mp4(sources, track_num, mp4out_enabled)
           mp3_ok         == track_num \notin faults.mp3
           mp4_ok         == video_tracks = <<>> \/ track_num \notin faults.mp4
       IN  /\ mp3_files' =
                IF mp3_ok
                THEN Append(mp3_files,
                            create_mp3(combined_audio, track_num, max_length))
                ELSE mp3_files
           /\ mp4_files' = IF mp3_ok /\ mp4_ok THEN mp4_files \o video_tracks
                           ELSE mp4_files
           /\ failed_tracks' \in
                IF ~mp3_ok
                THEN {Append(failed_tracks, Failed_track(track_num, "mp3", partial)) :
                         partial \in BOOLEAN}
                ELSE IF ~mp4_ok
                THEN {Append(failed_tracks, Failed_track(track_num, "mp4", partial)) :
                         partial \in BOOLEAN}
                ELSE {failed_tracks}
           /\ pc' = AfterTrack(mp3_ok /\ mp4_ok)
           /\ exit_code' = IF pc' = "exit" THEN 1 ELSE exit_code
    /\ track_num' = track_num + 1
    /\ UNCHANGED <<invocation, arrived, elsewhere, disk, sources, removed, max_length,
                   output_dir, cleanup_ran, dry_report, run, history>>

\* The range is exhausted: rotate_and_combine() returns.
Finish ==
    /\ pc = "rotate"
    /\ track_num > max_length
    /\ pc' = "cleanup"
    /\ UNCHANGED <<invocation, arrived, elsewhere, disk, rotation, sources, removed, exit_code,
                   output_dir, cleanup_ran, dry_report, run, history>>

\* main(): cleanup_temp_files(), its last statement. An error raised by the
\* removal ends the process with status 1.
Cleanup ==
    /\ pc = "cleanup"
    /\ cleanup_ran' = TRUE
    /\ \E outcome \in rmtree(temp_files, faults.rm) :
         /\ temp_files' = outcome.left
         /\ pc' = IF outcome.raised THEN "exit" ELSE "done"
         /\ exit_code' = IF outcome.raised THEN 1 ELSE 0
    /\ UNCHANGED <<invocation, arrived, elsewhere, rotation, sources, removed, output_dirs,
                   output_dir, dry_report, run, history>>

\* What a finished run leaves for the record.
RunRecord ==
    [ output_dir |-> output_dir,
      exit_code  |-> exit_code,
      max_length |-> max_length,
      mp3_files  |-> mp3_files,
      mp4_files  |-> mp4_files ]

\* The user runs the same command again.
Rerun ==
    /\ pc \in {"done", "exit", "dry_done"}
    /\ run < MaxRuns
    /\ history' = Append(history, RunRecord)
    /\ run' = run + 1
    /\ pc' = "scan"
    /\ sources' = <<>>
    /\ removed' = <<>>
    /\ max_length' = 0
    /\ track_num' = 0
    /\ mp3_files' = <<>>
    /\ mp4_files' = <<>>
    /\ exit_code' = -1
    /\ output_dir' = -1
    /\ failed_tracks' = <<>>
    /\ cleanup_ran' = FALSE
    /\ dry_report' = <<>>
    /\ UNCHANGED <<invocation, arrived, elsewhere, disk>>

Next ==
    \/ DryRun
    \/ DownloadOrScan
    \/ FilterEmptySources
    \/ AllSourcesFail
    \/ CreateOutputDir
    \/ StartRotation
    \/ CreateTrack
    \/ Finish
    \/ Cleanup

NextRuns == Next \/ Rerun

\* One run, nothing fails.
Spec == Init /\ [][Next]_vars

\* One run, something may fail.
SpecFaults == InitFaults /\ [][Next]_vars

\* The same command line, run up to MaxRuns times.
SpecRuns == InitRuns /\ [][NextRuns]_vars

\* One run over a long source.
SpecNaming == InitNaming /\ [][Next]_vars

\* ================================================================= claims
\* Vocabulary of the claims, stated without the operators of the model.
Started == pc \in {"rotate", "cleanup", "done"}

\* The Source of the rotation that came from command-line argument loc.
SourceAt(loc) == CHOOSE k \in DOMAIN sources : sources[k].location = loc

\* The item a Source contributes at the 0-based track index t.
CircularItem(items, t) == items[(t % Len(items)) + 1]

Lengths == [k \in DOMAIN sources |-> Len(sources[k].files)]

\* C1: every file that went into track number n (0-based index n - 1) of
\* either pipeline is, for the Source it came from, the item at circular
\* index (n - 1) mod len(items) of that Source's full item list, and a Source
\* whose circular item has the capability of the pipeline is represented by
\* exactly that item, at its place in Source order.
C1_CircularAssignment ==
    Started =>
      /\ \A n \in DOMAIN mp3_files : \A j \in DOMAIN mp3_files[n].files :
            LET f == mp3_files[n].files[j]
            IN  f = CircularItem(sources[SourceAt(f[1])].files, n - 1).id
      /\ \A n \in DOMAIN mp3_files :
            (\A k \in DOMAIN sources :
                CircularItem(sources[k].files, n - 1).has_audio)
            => mp3_files[n].files =
                 [k \in DOMAIN sources |->
                    CircularItem(sources[k].files, n - 1).id]
      /\ \A v \in DOMAIN mp4_files : \A j \in DOMAIN mp4_files[v].files :
            LET f == mp4_files[v].files[j]
            IN  f = CircularItem(sources[SourceAt(f[1])].files,
                                 mp4_files[v].track_num - 1).id

\* Lengths 5, 1, 3: the third Source gives its items 1,2,3,1,2 to tracks 1..5.
C1_Witness ==
    /\ pc = "done"
    /\ Lengths = <<5, 1, 3>>
    /\ [n \in 1..5 |-> mp3_files[n].files[3]] =
          << <<3, 1>>, <<3, 2>>, <<3, 3>>, <<3, 1>>, <<3, 2>> >>

\* C2: the track count is the largest item-list length of the Sources passed
\* to the rotation, and a finished rotation has made exactly that many
\* tracks, numbered 1..trackCount.
C2_TrackCountIsMaxLength ==
    /\ Started =>
          /\ \E k \in DOMAIN sources : max_length = Lengths[k]
          /\ \A k \in DOMAIN sources : Lengths[k] <= max_length
          /\ Len(mp3_files) <= max_length
    /\ pc = "done" =>
          /\ Len(mp3_files) = max_length
          /\ \A n \in DOMAIN mp3_files : mp3_files[n].track_num = n

\* Two Sources tie for the maximum and a shorter one comes first.
C2_Witness ==
    /\ pc = "done"
    /\ Len(sources) = 3
    /\ Lengths = <<2, 4, 4>>
    /\ Len(mp3_files) = 4

\* A Source is eligible for a pipeline when at least one of its items has
\* the capability of the pipeline.
AudioEligible == {k \in DOMAIN sources :
                    \E i \in DOMAIN sources[k].files : sources[k].files[i].has_audio}
VideoEligible == {k \in DOMAIN sources :
                    \E i \in DOMAIN sources[k].files : sources[k].files[i].has_video}

\* Longest item list among the Sources K; no Sources, no tracks.
MaxLenOver(K) == IF K = {} THEN 0
                 ELSE CHOOSE m \in {Lengths[k] : k \in K} :
                        \A k \in K : Lengths[k] <= m

AllItemsHaveAudio ==
    \A k \in DOMAIN sources : \A i \in DOMAIN sources[k].files :
        sources[k].files[i].has_audio

\* C3: the number of video tracks of a finished run with video requested is
\* the longest item list among the video-eligible Sources only; a Source
\* without any video item has no influence on it.
C3_VideoTrackCountFromVideoSources ==
    (pc = "done" /\ mp4out_enabled)
      => Len(mp4_files) = MaxLenOver(VideoEligible)

\* C4: with video requested and every item having audio, the audio track
\* count is the longest audio-eligible Source, the video track count is the
\* longest video-eligible Source, and the second is at most the first.
C4_SeparateTrackCounts ==
    (pc = "done" /\ mp4out_enabled /\ AllItemsHaveAudio)
      => /\ Len(mp3_files) = MaxLenOver(AudioEligible)
         /\ Len(mp4_files) = MaxLenOver(VideoEligible)
         /\ Len(mp4_files) <= Len(mp3_files)

\* C5: after validation, the Sources kept are exactly the arguments that
\* resolved to at least one item, in argument order and with their item
\* lists unchanged; the Sources removed are exactly the arguments that
\* resolved to no item; every argument is in one of the two lists and in one
\* place only; and the rotation never sees a Source without items.
C5_ValidatePartitions ==
    pc \notin {"scan", "filter", "dry_done"} =>
      /\ \A s \in DOMAIN args :
            /\ Len(args[s]) > 0 <=>
                 \E k \in DOMAIN sources : sources[k].location = s
            /\ Len(args[s]) = 0 <=>
                 \E k \in DOMAIN removed : removed[k].location = s
      /\ \A j, k \in DOMAIN sources :
            j < k => sources[j].location < sources[k].location
      /\ \A j, k \in DOMAIN removed :
            j < k => removed[j].location < removed[k].location
      /\ \A k \in DOMAIN sources :
            sources[k].files = args[sources[k].location]
      /\ \A k \in DOMAIN removed : removed[k].files = <<>>
      /\ Len(sources) + Len(removed) = Len(args)
      /\ Started => \A k \in DOMAIN sources : Len(sources[k].files) >= 1

\* An empty Source between two non-empty ones is removed, the other two stay.
C5_Witness ==
    /\ pc = "filtered"
    /\ Len(args) = 3
    /\ [k \in DOMAIN sources |-> sources[k].location] = <<1, 3>>
    /\ [k \in DOMAIN removed |-> removed[k].location] = <<2>>

\* Arguments whose file got into the mp3 of track number n.
Contributors(n) == {mp3_files[n].files[j][1] : j \in DOMAIN mp3_files[n].files}

\* C6: a Source whose circular item for a track has no audio is left out of
\* that track's mp3 and of no other: every Source whose circular item has
\* audio is in the track, the rotation goes on to the last track, and the
\* Source keeps its full item list, so its later positions do not shift.
C6_SkipSourceWithoutAudio ==
    Started =>
      /\ \A n \in DOMAIN mp3_files : \A k \in DOMAIN sources :
            LET item == CircularItem(sources[k].files, n - 1)
            IN  /\ ~item.has_audio => sources[k].location \notin Contributors(n)
                /\ item.has_audio =>
                      \E j \in DOMAIN mp3_files[n].files :
                          mp3_files[n].files[j] = item.id
      /\ \A k \in DOMAIN sources :
            sources[k].files = args[sources[k].location]
      /\ pc = "done" => Len(mp3_files) = max_length

\* The first Source has a video-only file and then a file with audio: it is
\* left out of track 1, which the second Source makes alone, and gives its
\* second file to track 2.
C6_Witness ==
    /\ pc = "done"
    /\ Len(sources) = 2
    /\ ~sources[1].files[1].has_audio
    /\ Len(mp3_files) = 2
    /\ mp3_files[1].files = << <<2, 1>> >>
    /\ mp3_files[2].files = << <<1, 2>>, <<2, 2>> >>

\* C7: without --mp4out no video track is planned or written at any point
\* of the run, whatever the Sources contain.
C7_NoVideoUnlessRequested ==
    ~mp4out_enabled => mp4_files = <<>>

\* A finished run without --mp4out over Sources with video made mp3s only.
C7_Witness ==
    /\ pc = "done"
    /\ ~mp4out_enabled
    /\ VideoEligible # {}
    /\ Len(mp3_files) >= 2
    /\ mp4_files = <<>>

\* The item behind a contributed file.
ItemOf(id) == args[id[1]][id[2]]

\* Titles / artists of the contributors of track number n, in Source order.
ContributorTitles(n) ==
    [j \in DOMAIN mp3_files[n].files |-> ItemOf(mp3_files[n].files[j]).title]
ContributorArtists(n) ==
    [j \in DOMAIN mp3_files[n].files |-> ItemOf(mp3_files[n].files[j]).artist]

Present(strs) == SelectSeq(strs, LAMBDA str : Len(str) > 0)

\* strs[1] . strs[2] . ... with a bullet between neighbours.
BulletSeparated(strs) ==
    LET upto[k \in 0..Len(strs)] ==
            IF k = 0 THEN <<>>
            ELSE IF k = 1 THEN strs[1]
            ELSE upto[k - 1] \o <<" ", "*", " ">> \o strs[k]
    IN  upto[Len(strs)]

\* "Track NN (from N sources)" for a track number below 100 and N below 10.
TrackFromSources(nn, n) ==
    <<"T", "r", "a", "c", "k", " ", DigitChar(nn \div 10), DigitChar(nn % 10),
      " ", "(", "f", "r", "o", "m", " ", DigitChar(n),
      " ", "s", "o", "u", "r", "c", "e", "s", ")">>

IsPrefix(p, str) == Len(p) <= Len(str) /\ p = SubSeq(str, 1, Len(p))

\* C8: the title of a track is the bullet-separated concatenation of its
\* contributors' present titles, in Source order, when that has at most 80
\* characters (empty when there is no title), and is "Track NN (from N
\* sources)" when it has more; it is never a cut-off concatenation.
C8_TitleOrFallback ==
    \A n \in DOMAIN mp3_files :
      LET concatenation == BulletSeparated(Present(ContributorTitles(n)))
      IN  /\ Len(concatenation) <= 80 => mp3_files[n].title = concatenation
          /\ Len(concatenation) > 80 =>
                /\ \E k \in 0..Len(sources) :
                      mp3_files[n].title = TrackFromSources(n, k)
                /\ ~IsPrefix(mp3_files[n].title, concatenation)

\* Two titles of 39 characters and the bullet make 81: the fallback is used.
C8_Witness ==
    \E n \in DOMAIN mp3_files :
      /\ Len(BulletSeparated(Present(ContributorTitles(n)))) = 81
      /\ Len(Present(ContributorTitles(n))) = 2
      /\ mp3_files[n].title = TrackFromSources(n, 2)

\* Sources that gave a file with audio to track number n.
AudioContributions(n) ==
    Cardinality({k \in DOMAIN sources :
                   CircularItem(sources[k].files, n - 1).has_audio})

\* C9: the N of a fallback title is the number of Sources that contributed
\* audio to the track; a Source left out of the track is not counted.
C9_FallbackCountsContributors ==
    \A n \in DOMAIN mp3_files :
      Len(BulletSeparated(Present(ContributorTitles(n)))) > 80
        => mp3_files[n].title = TrackFromSources(n, AudioContributions(n))

\* A fallback title on a track that one of the Sources was left out of.
C9_Witness ==
    \E n \in DOMAIN mp3_files :
      /\ Len(BulletSeparated(Present(ContributorTitles(n)))) > 80
      /\ AudioContributions(n) < Len(sources)
      /\ mp3_files[n].title = TrackFromSources(n, AudioContributions(n))

\* C10: the artist of a track is the bullet-separated concatenation of its
\* contributors' present artists, in Source order; it is "Various Artists"
\* exactly when no contributor has an artist, and it is never empty.
C10_ArtistOrVarious ==
    \A n \in DOMAIN mp3_files :
      LET artists == Present(ContributorArtists(n))
      IN  /\ artists # <<>> => mp3_files[n].artist = BulletSeparated(artists)
          /\ artists = <<>> <=>
               mp3_files[n].artist =
                 <<"V", "a", "r", "i", "o", "u", "s", " ",
                   "A", "r", "t", "i", "s", "t", "s">>
          /\ Len(mp3_files[n].artist) > 0

\* Of two contributors the first has no artist: the artist is the second's.
C10_Witness ==
    \E n \in DOMAIN mp3_files :
      /\ Len(mp3_files[n].files) = 2
      /\ ContributorArtists(n)[1] = <<>>
      /\ ContributorArtists(n)[2] # <<>>
      /\ mp3_files[n].artist = ContributorArtists(n)[2]

\* -------------------------------------------------------- output directory
\* The folders resolved so far, by the earlier runs and by this one, in order.
Resolved ==
    SelectSeq([k \in 1..Len(history) |-> history[k].output_dir] \o <<output_dir>>,
              LAMBDA d : d # -1)

\* C11: the folder a run is given did not exist before, every candidate before
\* it in the sequence name, name.1, name.2, ... did exist, and the folder exists
\* afterwards; so runs of one album name into an output root that held nothing
\* else obtain name, name.1, name.2, ... in this order.
C11_AutoIncrement ==
    /\ [][output_dir' \notin {output_dir, -1} =>
            /\ output_dir' \notin output_dirs
            /\ \A m \in 0..(output_dir' - 1) : m \in output_dirs
            /\ output_dirs' = output_dirs \cup {output_dir'}]_vars
    /\ [](output_dirs = {Resolved[k] : k \in DOMAIN Resolved} =>
            Resolved = [k \in DOMAIN Resolved |-> k - 1])

\* The third run into an empty output root is given name.2.
C11_Witness ==
    /\ run = 3
    /\ Resolved = <<0, 1, 2>>
    /\ output_dirs = {0, 1, 2}

\* ------------------------------------------------------------ track names
\* Number of decimal digits of n.
RECURSIVE NumDigits(_)
NumDigits(n) == IF n < 10 THEN 1 ELSE 1 + NumDigits(n \div 10)

DigitValue(c) ==
    CASE c = "0" -> 0 [] c = "1" -> 1 [] c = "2" -> 2 [] c = "3" -> 3
      [] c = "4" -> 4 [] c = "5" -> 5 [] c = "6" -> 6 [] c = "7" -> 7
      [] c = "8" -> 8 [] c = "9" -> 9

\* The number a string of digits is read as.
RECURSIVE NumberRead(_)
NumberRead(str) ==
    IF str = <<>> THEN 0
    ELSE 10 * NumberRead(SubSeq(str, 1, Len(str) - 1)) + DigitValue(str[Len(str)])

Larger(a, b) == IF a >= b THEN a ELSE b

TrackFiles == {mp3_files[n] : n \in DOMAIN mp3_files}
                 \cup {mp4_files[n] : n \in DOMAIN mp4_files}

\* C12 as stated: the index in every track name of a run is padded to the
\* width max(2, digits(trackCount)), so that all names of the run are equally
\* wide and distinct indices give distinct names; in a run of more than 99
\* tracks, track 1 is named with three digits.
C12_PaddedToTrackCountWidth ==
    /\ \A f \in TrackFiles :
          /\ Len(f.name) = Larger(2, NumDigits(max_length))
          /\ NumberRead(f.name) = f.track_num
    /\ \A n, m \in DOMAIN mp3_files :
          n # m => mp3_files[n].name # mp3_files[m].name
    /\ max_length > 99 =>
          \A n \in DOMAIN mp3_files :
             mp3_files[n].track_num = 1 => mp3_files[n].name = <<"0", "0", "1">>

\* C12, amended: the index in every track name is padded to two digits at
\* least, whatever the number of tracks: its width is max(2, digits(index)).
\* Distinct indices give distinct names; the names of a run of more than 99
\* tracks are not equally wide, track 1 being named with two digits.
C12_PaddedToTwoDigits ==
    /\ \A f \in TrackFiles :
          /\ Len(f.name) = Larger(2, NumDigits(f.track_num))
          /\ NumberRead(f.name) = f.track_num
    /\ \A n, m \in DOMAIN mp3_files :
          n # m => mp3_files[n].name # mp3_files[m].name
    /\ \A n, m \in DOMAIN mp4_files :
          n # m => mp4_files[n].name # mp4_files[m].name
    /\ \A n \in DOMAIN mp3_files :
          mp3_files[n].track_num = 1 => mp3_files[n].name = <<"0", "1">>

\* A finished run of 100 tracks: track-01 and track-100.
C12_Witness ==
    /\ pc = "done"
    /\ max_length = 100
    /\ Len(mp3_files) = 100
    /\ mp3_files[1].name = <<"0", "1">>
    /\ mp3_files[100].name = <<"1", "0", "0">>

\* ----------------------------------------------------------------- cleanup
\* The intermediate files the run put on disk.
Registered ==
    UNION {{<<"download", args[s][i].id>> : i \in DOMAIN args[s]} : s \in DOMAIN args}

\* C13: once the cleanup has been carried out, no intermediate file of the run
\* is left on disk other than one whose own deletion failed: a failed deletion
\* does not keep any other file from being removed.
C13_CleanupRemovesEveryArtifact ==
    cleanup_ran =>
        \A a \in Registered : a \in temp_files => a \in faults.rm

\* The process has exited after processing (a dry run processes nothing).
Terminated == pc \in {"done", "exit"}

\* C14: however the run ends (normal completion, all sources failing, the
\* output folder not created, a fatal error of the file system), the cleanup
\* has been executed before the process exits.
C14_CleanupOnEveryPath == Terminated => cleanup_ran

\* C15: after a run has ended, successfully or by a failure at any step, the
\* only files of the run left on disk are final track files: every download
\* and other intermediate file has been removed (but for a file whose own
\* deletion fails).
C15_OnlyTrackFilesRemain ==
    Terminated => \A a \in temp_files : a \in faults.rm

\* ---------------------------------------------------------- failed tracks
\* Track numbers whose mp3 or mp4 was written, and those logged as failed.
Produced(track_files) == {track_files[n].track_num : n \in DOMAIN track_files}

Failed(ext) ==
    {failed_tracks[k].track_num :
        k \in {j \in DOMAIN failed_tracks : failed_tracks[j].ext = ext}}

Increasing(nums) == \A j, k \in DOMAIN nums : j < k => nums[j] < nums[k]

\* Track numbers for which the video pipeline has something to combine.
VideoPlanned ==
    {t \in 1..max_length :
        /\ mp4out_enabled
        /\ \E k \in DOMAIN sources :
              CircularItem(sources[k].files, t - 1).has_video}

C17_AudioExhaustionIsFatal ==
    /\ Terminated /\ AudioEligible = {} =>
          /\ mp3_files = <<>>
          /\ mp4_files = <<>>
          /\ cleanup_ran
          /\ exit_code # 0
    /\ Terminated /\ AudioEligible # {} /\ VideoEligible = {} =>
          /\ exit_code = 0
          /\ Len(mp3_files) = MaxLenOver(AudioEligible)
          /\ mp4_files = <<>>

\* The run has ended where its output folder could not be created.
OutputDirFailed == pc = "exit" /\ sources # <<>> /\ faults.dir

\* C19: when the output folder cannot be created the run is aborted: no track
\* is encoded afterwards, the downloads the run had made are removed by the
\* cleanup, and the exit status is non-zero.
C19_OutputDirFailureAborts ==
    OutputDirFailed =>
        /\ track_num = 0
        /\ mp3_files = <<>>
        /\ mp4_files = <<>>
        /\ cleanup_ran
        /\ temp_files = {}
        /\ exit_code # 0

\* ----------------------------------------------------------------- dry run
DryRunEnded == dry_run /\ pc = "dry_done"

\* Nothing of a run has been encoded, tagged or written, and no output folder
\* has been resolved.
NothingWritten ==
    /\ mp3_files = <<>>
    /\ mp4_files = <<>>
    /\ failed_tracks = <<>>
    /\ track_num = 0
    /\ output_dir = -1

LongestArgument ==
    CHOOSE m \in {Len(args[s]) : s \in DOMAIN args} :
        \A s \in DOMAIN args : Len(args[s]) <= m

Plan(track_files) ==
    [n \in DOMAIN track_files |->
        <<track_files[n].track_num, track_files[n].files>>]

SingleItemSources == {k \in DOMAIN sources : Len(sources[k].files) = 1}

\* How many times the file id is among the files of a track.
Occurrences(track, id) ==
    Cardinality({j \in DOMAIN track.files : track.files[j] = id})

\* C21: a Source with exactly one item contributes that item, once, to every
\* track of each pipeline the item is fit for: to every mp3 if it has audio,
\* and to the mp4 of every track number if it has video and video is requested.
C21_SingleItemOnEveryTrack ==
    Started =>
      \A k \in SingleItemSources :
         LET item == sources[k].files[1]
         IN  /\ item.has_audio =>
                  /\ Len(mp3_files) = track_num - 1
                  /\ \A n \in DOMAIN mp3_files :
                        Occurrences(mp3_files[n], item.id) = 1
             /\ item.has_video /\ mp4out_enabled =>
                  /\ Len(mp4_files) = track_num - 1
                  /\ \A n \in DOMAIN mp4_files :
                        Occurrences(mp4_files[n], item.id) = 1

\* A single video next to a source of three files: it is in all three tracks
\* of both pipelines.
C21_Witness ==
    /\ pc = "done"
    /\ mp4out_enabled
    /\ Len(sources) = 2
    /\ Len(sources[1].files) = 3
    /\ Len(sources[2].files) = 1
    /\ sources[2].files[1].has_video
    /\ Len(mp3_files) = 3
    /\ Len(mp4_files) = 3
    /\ \A n \in 1..3 : /\ Occurrences(mp3_files[n], <<2, 1>>) = 1
                        /\ Occurrences(mp4_files[n], <<2, 1>>) = 1

\* ------------------------------------------- retrieval in any completion order
\* Most items retrieved in one run, and most Sources they belong to.
MaxRetrievals == 3
MaxRetrievalSources == 2

\* The number of items of listings of the given lengths.
RECURSIVE ItemCount(_)
ItemCount(len) ==
    IF len = <<>> THEN 0 ELSE Head(len) + ItemCount(Tail(len))

\* One run that retrieves at most MaxRetrievals audio items, listed under at
\* most MaxRetrievalSources Sources.
InitRetrievals ==
    /\ \E n \in 1..MaxRetrievalSources :
         \E len \in [1..n -> 0..MaxRetrievals] :
            /\ ItemCount(len) <= MaxRetrievals
            /\ args = [s \in 1..n |->
                         [i \in 1..len[s] |-> MediaFile(s, i, "A", 2, FALSE)]]
    /\ mp4out_enabled = FALSE
    /\ dry_run = FALSE
    /\ faults = NoFaults
    /\ output_dirs = {}
    /\ temp_files = {}
    /\ run = 1
    /\ history = <<>>
    /\ ProcessStart
    /\ Elsewhere

\* The items of the listings whose retrieval has not completed yet.
Pending(a, log) ==
    {f \in UNION {{a[s][i] : i \in DOMAIN a[s]} : s \in DOMAIN a} :
        \A j \in DOMAIN log : log[j].id # f.id}

\* The ids of the items whose retrieval succeeded.
Retrieved(log) == {log[j].id : j \in {h \in DOMAIN log : log[h].ok}}

\* Slip: the items of a Source in the order in which their retrievals
\* completed.
ItemsOf_completion(listing, log) ==
    LET mine == SelectSeq(log, LAMBDA a :
                    a.ok /\ \E i \in DOMAIN listing : listing[i].id = a.id)
    IN  [j \in DOMAIN mine |->
            listing[CHOOSE i \in DOMAIN listing : listing[i].id = mine[j].id]]

\* The items of a Source: its listing, in listing order, without the items
\* whose retrieval failed.
ItemsOf(listing, log) ==
    SelectSeq(listing, LAMBDA f : f.id \in Retrieved(log))

\* The retrieval of one pending item completes, with success or failure, in
\* any order with respect to the others.
RetrievalCompletes ==
    /\ pc = "scan"
    /\ ~IsDryRun(dry_run)
    /\ \E f \in Pending(args, arrived), ok \in BOOLEAN :
         /\ arrived' = Append(arrived, [id |-> f.id, ok |-> ok])
         /\ temp_files' = IF ok THEN temp_files \cup {Download(f)} ELSE temp_files
    /\ UNCHANGED <<invocation, elsewhere, rotation, pc, sources, removed, exit_code,
                   output_dirs, output_dir, cleanup_ran, dry_report, run, history>>

\* Every retrieval has completed: each Source gets its items.
AssembleSources ==
    /\ pc = "scan"
    /\ ~IsDryRun(dry_run)
    /\ Pending(args, arrived) = {}
    /\ sources' = [s \in DOMAIN args |->
                     [location |-> s, files |-> ItemsOf(args[s], arrived)]]
    /\ pc' = "filter"
    /\ UNCHANGED <<invocation, arrived, elsewhere, disk, rotation, removed, exit_code,
                   output_dir, cleanup_ran, dry_report, run, history>>

NextRetrievals ==
    \/ RetrievalCompletes
    \/ AssembleSources
    \/ FilterEmptySources
    \/ AllSourcesFail
    \/ CreateOutputDir
    \/ StartRotation
    \/ CreateTrack
    \/ Finish
    \/ Cleanup

SpecRetrievals == InitRetrievals /\ [][NextRetrievals]_vars

\* The position of the item in the listing of its Source.
ListingIndex(id) ==
    CHOOSE i \in DOMAIN args[id[1]] : args[id[1]][i].id = id

\* The item of Source s that has exactly j - 1 retrieved items of s before it
\* in the listing.
NthRetrieved(s, j) ==
    CHOOSE f \in {args[s][i] : i \in DOMAIN args[s]} :
        /\ f.id \in Retrieved(arrived)
        /\ Cardinality({h \in 1..(ListingIndex(f.id) - 1) :
                           args[s][h].id \in Retrieved(arrived)}) = j - 1

\* C22: in whatever order the retrievals completed, the items of every Source
\* are exactly its retrieved items, each once, in listing order; and each
\* track takes from every Source the item that the listing and the set of
\* successes alone determine.
C22_ListingOrderWhateverCompletes ==
    /\ pc # "scan" =>
         \A k \in DOMAIN sources :
            LET s == sources[k].location
                files == sources[k].files
            IN  /\ {files[i].id : i \in DOMAIN files}
                      = {id \in Retrieved(arrived) : id[1] = s}
                /\ \A i, j \in DOMAIN files :
                      i < j => ListingIndex(files[i].id) < ListingIndex(files[j].id)
    /\ pc \in {"cleanup", "done"} =>
         \A n \in DOMAIN mp3_files :
            mp3_files[n].files =
               [k \in DOMAIN sources |->
                  NthRetrieved(sources[k].location,
                               ((n - 1) % Len(sources[k].files)) + 1).id]

\* The second item of a listing of three arrived first and the first one
\* last, the third failed: the Source holds the first, then the second.
C22_Witness ==
    /\ pc = "done"
    /\ Len(arrived) = 3
    /\ arrived[1] = [id |-> <<1, 2>>, ok |-> TRUE]
    /\ arrived[2] = [id |-> <<1, 3>>, ok |-> FALSE]
    /\ arrived[3] = [id |-> <<1, 1>>, ok |-> TRUE]
    /\ Len(sources) = 1
    /\ [i \in DOMAIN sources[1].files |-> sources[1].files[i].id]
          = << <<1, 1>>, <<1, 2>> >>
    /\ Len(mp3_files) = 2

\* ------------------------------------------------- server.js: extractMp3Files
\* Longest folder page, in fragments.
MaxPageLen == 2

\* A folder page is a sequence of fragments, each naming a file id and, but
\* for some data-id fragments, a file name:
\*   "dq"      ["id","name.mp3"          "sq"    ['id','name.mp3'
\*   "esc"     [\"id\",\"name.mp3\"        "bare"  "id", 'name.mp3'
\*   "dataid"  data-id="id" ... data-target="doc">name.mp3<
Syntaxes == {"dq", "sq", "esc", "bare", "dataid"}

\* File ids of 33 and of 28 characters.
FileIds == {"id33", "id28"}
IdLength(id) == IF id = "id33" THEN 33 ELSE 28

\* A file name is the text before its extension; "" is no name at all.
Fragments ==
    [syn : Syntaxes \ {"dataid"}, id : FileIds, name : {"x", "y"}]
    \cup [syn : {"dataid"}, id : FileIds, name : {"x", "y", ""}]

Pages == UNION {[1..n -> Fragments] : n \in 0..MaxPageLen}

\* Whether the n-th of the old patterns matches the fragment.
\*   1: \["(id{25,})","(...\.mp3...)"     2: the same in single quotes
\*   3: \[\\?"(id{25,})\\?",\\?"(...\.mp3...)\\?"
\*   4: ["'](id{33})["'][,\s]*["'](...\.mp3...)["']
PatternMatches(n, fragment) ==
    CASE n = 1 -> fragment.syn = "dq"
      [] n = 2 -> fragment.syn = "sq"
      [] n = 3 -> fragment.syn \in {"dq", "esc"}
      [] n = 4 -> /\ fragment.syn \in {"dq", "sq", "bare"}
                  /\ IdLength(fragment.id) = 33

\* The file name the n-th pattern captures: [^"]* takes the backslash before
\* an escaped closing quote into the name.
Filename(n, fragment) ==
    IF n = 3 /\ fragment.syn = "esc"
    THEN <<fragment.name, ".mp3", "\\">>
    ELSE <<fragment.name, ".mp3">>

\* The matches of pattern.exec(html), in page order: [fileId, filename].
Matches(n, html) ==
    LET found == SelectSeq(html, LAMBDA fragment : PatternMatches(n, fragment))
    IN  [j \in DOMAIN found |->
            [fileId |-> found[j].id, filename |-> Filename(n, found[j])]]

\* filename.replace(/\.mp3$/i, '')
CleanName(filename) ==
    IF filename # <<>> /\ filename[Len(filename)] = ".mp3"
    THEN SubSeq(filename, 1, Len(filename) - 1)
    ELSE filename

FileEntry(fileId, filename) ==
    [id   |-> fileId,
     name |-> CleanName(filename),
     url  |-> <<"https://drive.usercontent.google.com/download?id=", fileId,
                "&export=download">>]

\* Slip: only the entry pushed last is looked at.
Seen_last(files, fileId) ==
    files # <<>> /\ files[Len(files)].id = fileId

\* seen.has(fileId): every id pushed is added to seen.
Seen(files, fileId) == \E i \in DOMAIN files : files[i].id = fileId

\* while ((match = pattern.exec(html)) !== null): skip the ids seen, push
\* the others.
RECURSIVE PushUnseen(_, _)
PushUnseen(files, matches) ==
    IF matches = <<>> THEN files
    ELSE LET match == Head(matches)
         IN  IF Seen(files, match.fileId)
             THEN PushUnseen(files, Tail(matches))
             ELSE PushUnseen(Append(files, FileEntry(match.fileId, match.filename)),
                             Tail(matches))

\* Strategy 1: the four old patterns, one after the other.
OldPatterns(html) ==
    PushUnseen(PushUnseen(PushUnseen(PushUnseen(<<>>,
        Matches(1, html)), Matches(2, html)), Matches(3, html)), Matches(4, html))

\* Pass 1 of strategy 2: the positions of the data-id fragments whose id has
\* not been seen at an earlier position.
DataIds(html) ==
    LET at == {i \in DOMAIN html :
                 /\ html[i].syn = "dataid"
                 /\ \A h \in 1..(i - 1) :
                       html[h].syn = "dataid" => html[h].id # html[i].id}
    IN  SelectSeq([i \in DOMAIN html |-> i], LAMBDA i : i \in at)

\* Pass 2: the first >name.mp3< in the text that starts at the data-id
\* (a page of MaxPageLen fragments is shorter than the 5000 characters
\* looked at); <<>> if there is none. The names of the pages have no
\* "Audio:" prefix and no blanks around them for replace and trim to remove.
NearbyFilename(html, index) ==
    LET named == {i \in index..Len(html) :
                     html[i].syn = "dataid" /\ html[i].name # ""}
    IN  IF named = {} THEN <<>>
        ELSE LET first == CHOOSE i \in named : \A h \in named : i <= h
             IN  <<html[first].name, ".mp3">>

\* Strategy 2: an entry for every data-id that has a file name nearby.
TwoPass(html) ==
    LET fileIds == DataIds(html)
        named   == SelectSeq(fileIds, LAMBDA index : NearbyFilename(html, index) # <<>>)
    IN  [j \in DOMAIN named |->
            FileEntry(html[named[j]].id, NearbyFilename(html, named[j]))]

extractMp3Files(html) ==
    LET files == OldPatterns(html)
    IN  IF Len(files) = 0 THEN TwoPass(html) ELSE files

\* ------------------------------------------------------ server.js: handlers
\* Most requests the server receives, and most of them to /debug.
MaxRequests == 3
MaxDebugRequests == 1

\* The pages Google Drive serves for a folder over time: no file in it, one
\* file, and that file with a second one.
FolderPages ==
    {<<>>,
     <<[syn |-> "dq", id |-> "id33", name |-> "x"]>>,
     <<[syn |-> "dq", id |-> "id33", name |-> "x"],
       [syn |-> "dq", id |-> "id28", name |-> "y"]>>}

\* The mixer and the wrapper script play no part in what the server does.
NoMixer ==
    /\ args = <<>>
    /\ mp4out_enabled = FALSE
    /\ dry_run = FALSE
    /\ faults = NoFaults
    /\ output_dirs = {}
    /\ temp_files = {}
    /\ run = 1
    /\ history = <<>>
    /\ ProcessStart
    /\ arrived = <<>>
    /\ wrapper = [pc |-> "idle"]

\* The server starts: the cache directory holds what earlier runs of the
\* server saved there, which is nothing or a list fetchAndCacheFolder wrote.
InitServer ==
    /\ NoMixer
    /\ cache \in [FolderIds ->
                    {NoFile} \cup {[NoFile EXCEPT !.exists = TRUE,
                                                  !.files = extractMp3Files(page)] :
                                     page \in FolderPages \ {<<>>}}]
    /\ requests = <<>>
    /\ drive_fetches = <<>>
    /\ drive \in [FolderIds -> FolderPages]

\* A request whose handler waits for fetch(url).
Fetching(route, folderId) ==
    [route |-> route, folderId |-> folderId, pc |-> "fetch", status |-> 0,
     body |-> "", files |-> <<>>]

\* A request that has been answered.
Answered(route, folderId, status, body, files) ==
    [route |-> route, folderId |-> folderId, pc |-> "done", status |-> status,
     body |-> body, files |-> files]

\* fetch(url) is called for the request about to be received.
Fetch(route, folderId) ==
    /\ requests' = Append(requests, Fetching(route, folderId))
    /\ drive_fetches' = Append(drive_fetches,
                               [folderId |-> folderId, route |-> route,
                                request |-> Len(requests) + 1])

\* app.get('/'): without a folder, the landing page. Otherwise
\* ensureFolderCached: when cache/<folderId>.json exists the player page is
\* sent; when it does not, fetchAndCacheFolder calls fetch and the handler
\* waits.
GetRoot ==
    /\ Len(requests) < MaxRequests
    /\ \E folderId \in FolderIds \cup {""} :
         IF folderId = ""
         THEN /\ requests' = Append(requests,
                                    Answered("/", folderId, 200, "landing page", <<>>))
              /\ UNCHANGED drive_fetches
         ELSE IF cache[folderId].exists
         THEN /\ requests' = Append(requests,
                                    Answered("/", folderId, 200, "player", <<>>))
              /\ UNCHANGED drive_fetches
         ELSE Fetch("/", folderId)
    /\ UNCHANGED <<mixer, wrapper, cache, drive>>

\* app.get('/playlist/:folderId.json')
GetPlaylist ==
    /\ Len(requests) < MaxRequests
    /\ \E folderId \in FolderIds :
         requests' = Append(requests,
            IF ~cache[folderId].exists
            THEN Answered("/playlist", folderId, 404, "Playlist not found", <<>>)
            ELSE Answered("/playlist", folderId, 200, "file",
                          cache[folderId].files))
    /\ UNCHANGED <<mixer, wrapper, cache, drive_fetches, drive>>

\* Slip: force is not passed on, so a cached folder is not fetched again.
GetRefresh_unforced ==
    /\ Len(requests) < MaxRequests
    /\ \E folderId \in FolderIds :
         IF cache[folderId].exists
         THEN /\ requests' = Append(requests,
                    Answered("/refresh", folderId, 200, "Folder cache refreshed", <<>>))
              /\ UNCHANGED drive_fetches
         ELSE Fetch("/refresh", folderId)
    /\ UNCHANGED <<mixer, wrapper, cache, drive>>

\* app.get('/refresh/:folderId'): fetchAndCacheFolder(folderId, true) calls
\* fetch whether the cache file exists or not.
GetRefresh ==
    /\ Len(requests) < MaxRequests
    /\ \E folderId \in FolderIds : Fetch("/refresh", folderId)
    /\ UNCHANGED <<mixer, wrapper, cache, drive>>

\* The answer of a handler whose fetchAndCacheFolder threw.
Failure(request) ==
    [request EXCEPT !.pc = "done", !.status = 500, !.body = "error"]

\* fetchAndCacheFolder after await fetch(url): the promise was rejected or
\* the response is not ok, and the handler answers 500; or the response is
\* ok and response.text() is awaited.
FetchReturns ==
    /\ \E r \in DOMAIN requests :
         /\ requests[r].pc = "fetch"
         /\ requests[r].route \in {"/", "/refresh"}
         /\ \E outcome \in {"rejected", "not ok", "ok"} :
              requests' = [requests EXCEPT ![r] =
                 IF outcome = "ok" THEN [@ EXCEPT !.pc = "text"] ELSE Failure(@)]
    /\ UNCHANGED <<mixer, wrapper, cache, drive_fetches, drive>>

\* Slip: the list is written before it is looked at.
TextReturns_savesfirst ==
    /\ \E r \in DOMAIN requests :
         /\ requests[r].pc = "text"
         /\ requests[r].route \in {"/", "/refresh"}
         /\ \E rejected \in BOOLEAN :
              LET folderId == requests[r].folderId
                  files    == extractMp3Files(drive[folderId])
              IN  IF rejected
                  THEN /\ requests' = [requests EXCEPT ![r] = Failure(@)]
                       /\ UNCHANGED cache
                  ELSE /\ cache' = [cache EXCEPT ![folderId].exists = TRUE,
                                                 ![folderId].files = files]
                       /\ requests' = [requests EXCEPT ![r] =
                             IF Len(files) = 0 THEN Failure(@)
                             ELSE [@ EXCEPT !.pc = "done", !.status = 200,
                                            !.body = IF requests[r].route = "/"
                                                     THEN "player"
                                                     ELSE "Folder cache refreshed"]]
    /\ UNCHANGED <<mixer, wrapper, drive_fetches, drive>>

\* fetchAndCacheFolder after await response.text(): no file extracted (or the
\* body could not be read) throws, and the handler answers 500; otherwise
\* the list is written to cache/<folderId>.json and the handler answers,
\* '/' with the player page and /refresh with success.
TextReturns ==
    /\ \E r \in DOMAIN requests :
         /\ requests[r].pc = "text"
         /\ requests[r].route \in {"/", "/refresh"}
         /\ \E rejected \in BOOLEAN :
              LET folderId == requests[r].folderId
                  files    == extractMp3Files(drive[folderId])
              IN  IF rejected \/ Len(files) = 0
                  THEN /\ requests' = [requests EXCEPT ![r] = Failure(@)]
                       /\ UNCHANGED cache
                  ELSE /\ cache' = [cache EXCEPT ![folderId].exists = TRUE,
                                                 ![folderId].files = files]
                       /\ requests' = [requests EXCEPT ![r] =
                             [@ EXCEPT !.pc = "done", !.status = 200,
                                       !.body = IF requests[r].route = "/"
                                                THEN "player"
                                                ELSE "Folder cache refreshed"]]
    /\ UNCHANGED <<mixer, wrapper, drive_fetches, drive>>

\* The owner of a folder adds or removes files: Drive serves another page.
DriveChanges ==
    /\ \E folderId \in FolderIds, page \in FolderPages :
         /\ page # drive[folderId]
         /\ drive' = [drive EXCEPT ![folderId] = page]
    /\ UNCHANGED <<mixer, wrapper, cache, requests, drive_fetches>>

NextServer ==
    \/ GetRoot
    \/ GetPlaylist
    \/ GetRefresh
    \/ FetchReturns
    \/ TextReturns
    \/ DriveChanges

SpecServer == InitServer /\ [][NextServer]_vars

\* app.get('/debug/:folderId'): fetch is called and the handler waits.
GetDebug ==
    /\ Len(requests) < MaxDebugRequests
    /\ \E folderId \in FolderIds : Fetch("/debug", folderId)
    /\ UNCHANGED <<mixer, wrapper, cache, drive>>

\* /debug after await fetch(url): rejected, the answer is 500; not ok, the
\* answer has the status of the response; ok, response.text() is awaited.
DebugFetchReturns ==
    /\ \E r \in DOMAIN requests :
         /\ requests[r].pc = "fetch"
         /\ requests[r].route = "/debug"
         /\ \E status \in {0, 200, 403, 404} :
              requests' = [requests EXCEPT ![r] =
                 CASE status = 0   -> Failure(@)
                   [] status = 200 -> [@ EXCEPT !.pc = "text"]
                   [] OTHER        -> [@ EXCEPT !.pc = "done", !.status = status,
                                                !.body = "Failed to fetch folder"]]
    /\ UNCHANGED <<mixer, wrapper, cache, drive_fetches, drive>>

\* /debug after await response.text(): the page is saved as
\* cache/debug-<folderId>.html and the answer holds what extractMp3Files
\* finds in it.
DebugTextReturns ==
    /\ \E r \in DOMAIN requests :
         /\ requests[r].pc = "text"
         /\ requests[r].route = "/debug"
         /\ \E rejected \in BOOLEAN :
              LET folderId == requests[r].folderId
                  html     == drive[folderId]
              IN  IF rejected
                  THEN /\ requests' = [requests EXCEPT ![r] = Failure(@)]
                       /\ UNCHANGED cache
                  ELSE /\ cache' = [cache EXCEPT ![folderId].debug = <<html>>]
                       /\ requests' = [requests EXCEPT ![r] =
                             [@ EXCEPT !.pc = "done", !.status = 200,
                                       !.body = "success",
                                       !.files = extractMp3Files(html)]]
    /\ UNCHANGED <<mixer, wrapper, drive_fetches, drive>>

\* The server starts with an empty cache directory; a folder has any page.
InitExtract ==
    /\ NoMixer
    /\ cache = [f \in FolderIds |-> NoFile]
    /\ requests = <<>>
    /\ drive_fetches = <<>>
    /\ drive \in [FolderIds -> Pages]

NextExtract ==
    \/ GetDebug
    \/ DebugFetchReturns
    \/ DebugTextReturns

SpecExtract == InitExtract /\ [][NextExtract]_vars

\* ---------------------------------------------------------- Drive is fetched once
\* The requests to '/' for the folder that fetched its Drive page and were
\* answered with the player page.
FetchedByRoot(folderId) ==
    {i \in DOMAIN drive_fetches :
        /\ drive_fetches[i].folderId = folderId
        /\ drive_fetches[i].route = "/"
        /\ requests[drive_fetches[i].request].status = 200}

NoRefresh == \A r \in DOMAIN requests : requests[r].route # "/refresh"

\* C23: once cache/<F>.json exists no request to /?folder=F fetches the
\* Drive page of F; and, while no /refresh is requested, the requests to
\* /?folder=F, overlapping ones included, fetch the page of F only once
\* (fetches that failed are not counted).
C23_DriveFetchedOnce ==
    /\ [][\A folderId \in FolderIds :
            /\ cache[folderId].exists
            /\ Len(requests') > Len(requests)
            /\ requests'[Len(requests')].route = "/"
            /\ requests'[Len(requests')].folderId = folderId
            => drive_fetches' = drive_fetches]_vars
    /\ [](NoRefresh =>
            \A folderId \in FolderIds : Cardinality(FetchedByRoot(folderId)) <= 1)

\* -------------------------------------------------------------- /refresh
\* The file ids a page of FolderPages lists, in page order.
ListedIds(page) == [i \in DOMAIN page |-> page[i].id]

EntryIds(files) == [i \in DOMAIN files |-> files[i].id]

\* Request r is received in this step.
Received(r) == Len(requests) = r - 1 /\ Len(requests') = r

\* Request r is answered in this step, having waited for Drive.
AnsweredNow(r) ==
    /\ r \in DOMAIN requests
    /\ requests[r].pc # "done"
    /\ requests'[r].pc = "done"

\* C24: a request to /refresh/F fetches the Drive page of F whether
\* cache/<F>.json exists or not; when the page has at least one MP3 entry the
\* cache file is replaced by the list of that page and the answer is success,
\* and the answer is success in no other case; a request to /playlist/F.json
\* is answered with the list the cache file holds at that moment, which only
\* a fetch that succeeded changes.
C24_RefreshReplacesCache ==
    [][\A r \in 1..MaxRequests :
         /\ Received(r) /\ requests'[r].route = "/refresh" =>
               /\ requests'[r].pc = "fetch"
               /\ drive_fetches' = Append(drive_fetches,
                      [folderId |-> requests'[r].folderId, route |-> "/refresh",
                       request |-> r])
         /\ AnsweredNow(r) /\ requests[r].route = "/refresh" =>
               LET folderId == requests[r].folderId
               IN  /\ requests[r].pc = "text" /\ drive[folderId] # <<>>
                        /\ requests'[r].status # 500 =>
                          /\ cache'[folderId].exists
                          /\ EntryIds(cache'[folderId].files)
                                = ListedIds(drive[folderId])
                          /\ requests'[r].status = 200
                          /\ requests'[r].body = "Folder cache refreshed"
                   /\ requests'[r].status = 200 =>
                          /\ requests[r].pc = "text"
                          /\ drive[folderId] # <<>>
                          /\ EntryIds(cache'[folderId].files)
                                = ListedIds(drive[folderId])
         /\ Received(r) /\ requests'[r].route = "/playlist" =>
               LET folderId == requests'[r].folderId
               IN  /\ cache' = cache
                   /\ cache[folderId].exists =>
                          /\ requests'[r].status = 200
                          /\ requests'[r].files = cache[folderId].files
                   /\ ~cache[folderId].exists => requests'[r].status = 404
         /\ cache' # cache =>
               \E q \in DOMAIN requests :
                  /\ AnsweredNow(q)
                  /\ requests'[q].status = 200]_vars

\* The playlist held one file; a refresh found two and succeeded; the
\* playlist requested after it has both.
C24_Witness ==
    /\ Len(requests) = 3
    /\ requests[1].route = "/playlist" /\ requests[1].status = 200
    /\ Len(requests[1].files) = 1
    /\ requests[2].route = "/refresh" /\ requests[2].status = 200
    /\ requests[3].route = "/playlist" /\ requests[3].status = 200
    /\ EntryIds(requests[3].files) = <<"id33", "id28">>
    /\ EntryIds(cache["F"].files) = <<"id33", "id28">>
    /\ Len(drive_fetches) = 1

\* ------------------------------------------------------- failed fetches
\* C29: a request to /?folder=F or /refresh/F whose fetch fails (the fetch
\* is rejected or not ok, the body cannot be read, or no MP3 entry is
\* extracted) is answered with status 500 and leaves every cache file as it
\* was; and no cache file ever holds an empty list.
C29_FailedFetchLeavesCache ==
    /\ [][\A r \in DOMAIN requests :
            AnsweredNow(r) /\ requests[r].route \in {"/", "/refresh"} =>
               /\ requests[r].pc = "fetch" \/ drive[requests[r].folderId] = <<>> =>
                     /\ requests'[r].status = 500
                     /\ cache' = cache
               /\ requests'[r].status # 200 =>
                     /\ requests'[r].status = 500
                     /\ cache' = cache]_vars
    /\ [](\A folderId \in FolderIds :
             cache[folderId].exists => cache[folderId].files # <<>>)

\* A first visit failed and left no cache file; a refresh then cached the
\* one file of the folder; a second refresh, the folder page listing no file
\* by then, was answered 500 and the list of one file is still cached.
C29_Witness ==
    /\ Len(requests) = 3
    /\ requests[1].route = "/" /\ requests[1].status = 500
    /\ requests[2].route = "/refresh" /\ requests[2].status = 200
    /\ requests[3].route = "/refresh" /\ requests[3].status = 500
    /\ drive["F"] = <<>>
    /\ cache["F"].exists
    /\ EntryIds(cache["F"].files) = <<"id33">>
    /\ Len(drive_fetches) = 3

\* ------------------------------------------------------- extracted entries
\* Every match the extraction makes on the page, in the order in which it
\* makes them: pattern after pattern, each over the whole page; or, if no old
\* pattern matches at all, the data-id fragments of the page.
MatchLog(html) ==
    LET old == Matches(1, html) \o Matches(2, html) \o Matches(3, html)
                 \o Matches(4, html)
        at  == SelectSeq([i \in DOMAIN html |-> i],
                         LAMBDA i : html[i].syn = "dataid")
    IN  IF old # <<>> THEN old
        ELSE [j \in DOMAIN at |->
                [fileId |-> html[at[j]].id,
                 filename |-> NearbyFilename(html, at[j])]]

\* The position of the first match of the id in the log.
FirstMatch(log, fileId) ==
    CHOOSE m \in DOMAIN log :
        /\ log[m].fileId = fileId
        /\ \A h \in 1..(m - 1) : log[h].fileId # fileId

\* The /debug requests that were answered with what was extracted.
Extracted ==
    {r \in DOMAIN requests :
        /\ requests[r].route = "/debug"
        /\ requests[r].pc = "done"
        /\ requests[r].status = 200}

\* C30: the list extracted from a page has no two entries with the same file
\* id; an id matched several times, by one pattern or by several, has one
\* entry, with the name of its first match; and the entries are in the order
\* of the first matches of their ids.
C30_NoDuplicateIdsFirstMatchWins ==
    \A r \in Extracted :
       LET files == requests[r].files
           log   == MatchLog(drive[requests[r].folderId])
       IN  /\ \A i, j \in DOMAIN files : i < j => files[i].id # files[j].id
           /\ \A i \in DOMAIN files :
                 /\ \E m \in DOMAIN log : log[m].fileId = files[i].id
                 /\ LET filename == log[FirstMatch(log, files[i].id)].filename
                    IN  files[i].name =
                           IF filename[Len(filename)] = ".mp3"
                           THEN SubSeq(filename, 1, Len(filename) - 1)
                           ELSE filename
           /\ \A i, j \in DOMAIN files :
                 i < j => FirstMatch(log, files[i].id) < FirstMatch(log, files[j].id)
           /\ \A m \in DOMAIN log :
                 log[FirstMatch(log, log[m].fileId)].filename # <<>> =>
                    \E i \in DOMAIN files : files[i].id = log[m].fileId

\* The page names one id twice, first in single quotes as x and then in
\* double quotes as y: the pattern for double quotes runs first, so the one
\* entry of the id is named y.
C30_Witness ==
    /\ drive["F"] = <<[syn |-> "sq", id |-> "id33", name |-> "x"],
                      [syn |-> "dq", id |-> "id33", name |-> "y"]>>
    /\ Extracted = {1}
    /\ Len(requests[1].files) = 1
    /\ requests[1].files[1].id = "id33"
    /\ requests[1].files[1].name = <<"y">>

\* ------------------------------------------- output directory, resolved once
\* A step of the track loop: one track number is processed.
TrackStep == pc = "rotate" /\ track_num' # track_num

\* C25: within a run the output directory is resolved once, in a step that
\* creates a directory that did not exist, before any track is processed;
\* every step of the track loop finds it resolved and leaves it as it is, so
\* that every track file of the run, output_dir / track-NN, is in that one
\* directory.
C25_OutputDirResolvedOnce ==
    [][run' = run =>
         /\ output_dir' # output_dir =>
               /\ output_dir = -1
               /\ pc = "filtered"
               /\ track_num = 0
               /\ mp3_files = <<>> /\ mp4_files = <<>> /\ failed_tracks = <<>>
               /\ output_dir' \notin output_dirs
               /\ output_dirs' = output_dirs \cup {output_dir'}
         /\ TrackStep =>
               /\ output_dir # -1
               /\ output_dir \in output_dirs
               /\ output_dir' = output_dir
               /\ output_dirs' = output_dirs
         /\ mp3_files' # mp3_files \/ mp4_files' # mp4_files => TrackStep]_vars

\* The second run of a command line resolved its directory to the suffix 1
\* and wrote both tracks of its two-file source there.
C25_Witness ==
    /\ run = 2
    /\ pc = "done"
    /\ output_dir = 1
    /\ output_dirs = {0, 1}
    /\ Len(mp3_files) = 2
    /\ track_num = 3

\* ------------------------------------------------- produced after success
\* The run has ended, with or without an error.
RunEnded == pc \in {"done", "exit"}

TracksOf(ext) == IF ext = "mp3" THEN mp3_files ELSE mp4_files

\* The track files in the output directory: the tracks produced and the
\* partial files of the tracks that failed.
FilesLeft(ext) ==
    Produced(TracksOf(ext))
    \cup {failed_tracks[k].track_num :
            k \in {j \in DOMAIN failed_tracks :
                      failed_tracks[j].ext = ext /\ failed_tracks[j].partial}}

\* C26: a track is among the produced ones only when its encoding has
\* returned with success: not while its track number is still to be
\* processed, and not when its encoding failed; and when the run has ended,
\* the track files in the output directory are those of the produced tracks.
C26_ProducedOnlyAfterSuccess ==
    \A ext \in {"mp3", "mp4"} :
       /\ \A t \in Produced(TracksOf(ext)) : t < track_num /\ t \notin Failed(ext)
       /\ RunEnded => FilesLeft(ext) = Produced(TracksOf(ext))

\* ------------------------------------------------ mp4 only with video in it
\* The ids of the items the Sources contribute to track number t that have
\* video, and of those that have audio, in Source order.
VideoContributors(t) ==
    LET items == [k \in DOMAIN sources |-> CircularItem(sources[k].files, t - 1)]
        video == SelectSeq(items, LAMBDA item : item.has_video)
    IN  [j \in DOMAIN video |-> video[j].id]

AudioContributors(t) ==
    LET items == [k \in DOMAIN sources |-> CircularItem(sources[k].files, t - 1)]
        audio == SelectSeq(items, LAMBDA item : item.has_audio)
    IN  [j \in DOMAIN audio |-> audio[j].id]

\* C27: when the track loop is over, track-NN.mp4 exists exactly for the
\* track numbers that have a video contributor, and for none unless video
\* was requested; it holds those contributors and is never empty; and every
\* track number has its mp3, made of its audio contributors, whether it has
\* an mp4 or not.
C27_Mp4OnlyWithVideoContributor ==
    pc \in {"cleanup", "done"} =>
       /\ \A n \in DOMAIN mp4_files :
             /\ mp4out_enabled
             /\ mp4_files[n].files # <<>>
             /\ mp4_files[n].files = VideoContributors(mp4_files[n].track_num)
             /\ \A m \in DOMAIN mp4_files :
                   m # n => mp4_files[m].track_num # mp4_files[n].track_num
       /\ \A t \in 1..max_length :
             /\ mp4out_enabled /\ VideoContributors(t) # <<>>
                  => t \in Produced(mp4_files)
             /\ VideoContributors(t) = <<>> => t \notin Produced(mp4_files)
             /\ \E n \in DOMAIN mp3_files :
                   /\ mp3_files[n].track_num = t
                   /\ mp3_files[n].files = AudioContributors(t)

\* A run with --mp4out of two tracks: the first has a video contributor and
\* got its mp4, the second has none and got no mp4; both got their mp3.
C27_Witness ==
    /\ pc = "done"
    /\ mp4out_enabled
    /\ max_length = 2
    /\ VideoContributors(1) # <<>>
    /\ VideoContributors(2) = <<>>
    /\ Len(mp3_files) = 2
    /\ Produced(mp4_files) = {1}

\* ------------------------------------------ bhajan-mixer.sh, bhajan-mixer.bat
\* Most arguments on the command line of the wrapper script.
MaxArgs == 3

\* An argument is its text, in pieces that set the characters ?, * and =
\* apart. The working directory holds the directory bhajans and the file
\* song.mp3.
Flag     == <<"--mp4out">>
LocalDir == <<"bhajans">>
LocalFile == <<"song.mp3">>
ShortUrl == <<"https://youtu.be/abc">>
WatchUrl == <<"https://www.youtube.com/watch", "?", "v", "=", "abc">>

Arguments == {Flag, LocalDir, LocalFile, ShortUrl, WatchUrl}

\* [[ -d "$arg" ]], if exist "!ARG!\*"
IsDirectory(arg) == arg = LocalDir
\* [[ -f "$arg" ]], if exist "!ARG!"
IsFile(arg) == arg = LocalFile

\* /app/mount$MOUNT_COUNT
ContainerPath(count) == <<"/app/mount">> \o Decimal(count)

\* The wrapper script is started with a command line, each argument quoted.
InvokeWrapper(script, argv) ==
    [script |-> script, pc |-> "parse", argv |-> argv, i |-> 1,
     MOUNT_COUNT |-> 0, ARGS |-> <<>>]

InitWrapper ==
    /\ args = <<>>
    /\ mp4out_enabled = FALSE
    /\ dry_run = FALSE
    /\ faults = NoFaults
    /\ output_dirs = {}
    /\ temp_files = {}
    /\ run = 1
    /\ history = <<>>
    /\ ProcessStart
    /\ arrived = <<>>
    /\ cache = [f \in FolderIds |-> NoFile]
    /\ requests = <<>>
    /\ drive_fetches = <<>>
    /\ drive = [f \in FolderIds |-> <<>>]
    /\ \E script \in {"sh", "bat"}, n \in 0..MaxArgs :
         \E argv \in [1..n -> Arguments] :
            wrapper = InvokeWrapper(script, argv)

\* The body of both loops: a local directory or file is mounted and replaced
\* by its container path, anything else is passed as it is.
ParseArgument(w, arg) ==
    IF IsDirectory(arg) \/ IsFile(arg)
    THEN [w EXCEPT !.MOUNT_COUNT = @ + 1,
                   !.ARGS = Append(@, ContainerPath(w.MOUNT_COUNT + 1)),
                   !.i = @ + 1]
    ELSE [w EXCEPT !.ARGS = Append(@, arg), !.i = @ + 1]

\* bhajan-mixer.sh: one iteration of: for arg in "$@"
ShParseArgument ==
    /\ wrapper.pc = "parse"
    /\ wrapper.script = "sh"
    /\ wrapper.i <= Len(wrapper.argv)
    /\ wrapper' = ParseArgument(wrapper, wrapper.argv[wrapper.i])
    /\ UNCHANGED <<mixer, server>>

\* The file names in the working directory that match the pattern: none is
\* named like the one argument with a wildcard, a URL.
FilesMatching(pattern) == <<>>

HasWildcard(arg) == \E j \in DOMAIN arg : arg[j] \in {"?", "*"}

\* What FOR makes of one element of its set: an element with ? or * in it is
\* a file pattern and stands for the files that match it, in quotes or not.
ForElements(arg) == IF HasWildcard(arg) THEN FilesMatching(arg) ELSE <<arg>>

\* bhajan-mixer.bat: for %%a in (%*) do (...), for one element of the set:
\* the body runs once for each thing the element stands for.
BatParseArgument ==
    /\ wrapper.pc = "parse"
    /\ wrapper.script = "bat"
    /\ wrapper.i <= Len(wrapper.argv)
    /\ LET elements == ForElements(wrapper.argv[wrapper.i])
       IN  wrapper' = IF elements = <<>>
                      THEN [wrapper EXCEPT !.i = @ + 1]
                      ELSE ParseArgument(wrapper, elements[1])
    /\ UNCHANGED <<mixer, server>>

\* docker run ... "${ARGS[@]}" (%ARGS%): the loop is over, the container is
\* started with the arguments collected.
DockerRun ==
    /\ wrapper.pc = "parse"
    /\ wrapper.i > Len(wrapper.argv)
    /\ wrapper' = [wrapper EXCEPT !.pc = "run"]
    /\ UNCHANGED <<mixer, server>>

NextWrapper ==
    \/ ShParseArgument
    \/ BatParseArgument
    \/ DockerRun

SpecWrapper == InitWrapper /\ [][NextWrapper]_vars

\* --------------------------------------------------- arguments in order
\* How many of the first n arguments are local paths.
LocalPathsUpTo(argv, n) ==
    Cardinality({j \in 1..n : argv[j] \in {LocalDir, LocalFile}})

\* C28: the wrapper script starts the container with as many arguments as
\* it was given, in the order given: each existing local directory or file
\* replaced by /app/mount<k>, k counting the local paths from 1 in argument
\* order, and every other argument as it was given.
C28_ArgumentsForwardedInOrder ==
    wrapper.pc = "run" =>
       /\ Len(wrapper.ARGS) = Len(wrapper.argv)
       /\ \A j \in DOMAIN wrapper.argv :
             wrapper.ARGS[j] =
                IF wrapper.argv[j] \in {LocalDir, LocalFile}
                THEN <<"/app/mount">> \o Decimal(LocalPathsUpTo(wrapper.argv, j))
                ELSE wrapper.argv[j]

====
